---------------------------- MODULE Spec2Model ----------------------------
(***************************************************************************)
(* Model of the sample resolver (crates/sail-plan/src/resolver/query/      *)
(* sample.rs) and of the port of Spark's XORShiftRandom                    *)
(* (scripts/rng-test/src/main.rs).                                         *)
(*                                                                         *)
(* Machine words are sequences of BOOLEAN, least significant bit first:    *)
(* a u32 is a sequence of 32 bits, an i64 (two's complement) one of 64.    *)
(***************************************************************************)
EXTENDS Integers, Sequences, FiniteSets, TLC

VARIABLES
    init,        \* the user seed given to SparkXorShiftRandom::new, or NoSeed
    self_seed,   \* SparkXorShiftRandom.seed, the 64-bit state register
    doubles      \* the numerators of the next_double() results so far

VARIABLES
    sample,            \* the spec::Sample given to resolve_query_sample
    state0,            \* the PlanResolverState every call starts from
    state,             \* the PlanResolverState: the field names registered so far
    pc,                \* the position of the call in resolve_query_sample
    seed,              \* the local `seed` (an i64), once resolved
    input,             \* the local `input`, the resolved input plan
    rand_column_name,  \* the local `rand_column_name`
    plan,              \* the plan built so far (plan_with_rand, then the result)
    result,            \* the PlanResult the call returned
    events,            \* the calls made to the collaborators by this call, in order
    calls,             \* the number of calls of resolve_query_sample so far
    first,             \* the result of the first call
    drawn,             \* the values the random column took when the plan was run
    output             \* the rows the returned plan produced when it was run

genVars == <<init, self_seed, doubles>>

resolverVars == <<sample, state0, state, pc, seed, input, rand_column_name, plan,
                  result, events, calls, first, drawn, output>>

vars == <<init, self_seed, doubles, sample, state0, state, pc, seed, input,
          rand_column_name, plan, result, events, calls, first, drawn, output>>

(***************************************************************************)
(* Bounds of the model.                                                    *)
(***************************************************************************)
MaxSeed == 24    \* generator seeds are -MaxSeed..MaxSeed
MaxF == 2        \* f64 values are k / MaxF for k in 0..MaxF, and NaN
MaxI64 == 1      \* i64 seeds of a sample are 0..MaxI64
MaxCols == 2     \* an input plan has 1..MaxCols columns
MaxFields == 1   \* field names registered before the call: 0..MaxFields
MaxRows == 2     \* rows of the input when a plan is run
MaxCount == 3    \* the Poisson variate of a row is in 0..MaxCount
MaxCalls == 2    \* calls of resolve_query_sample on the same sample

(***************************************************************************)
(* Machine words.                                                          *)
(***************************************************************************)
Pow2(n) == 2 ^ n

\* A function on 1..n as the finite sequence it is.
Word(f) == <<>> \o f

\* The value e, with v (and w) evaluated first, as the operands of a machine
\* operation are: definitions are otherwise evaluated on first use, and a long
\* chain of pending ones nests deeper than the evaluator's stack allows.
Strict(v, e) == IF v = v THEN e ELSE e

Strict2(v, w, e) == IF v = v /\ w = w THEN e ELSE e

Bit(n, i) == (n \div Pow2(i)) % 2 = 1

\* The w-bit word holding the natural number n < 2^31.
FromNat(n, w) == Word([i \in 1..w |-> IF i <= 31 THEN Bit(n, i - 1) ELSE FALSE])

Not(a) == Strict(a, Word([i \in 1..Len(a) |-> ~a[i]]))

\* The w-bit two's complement word of the integer n, |n| < 2^31.
FromInt(n, w) == IF n >= 0 THEN FromNat(n, w) ELSE Not(FromNat(-n - 1, w))

RECURSIVE ToNat(_)
\* The natural number a word of at most 31 bits holds.
ToNat(a) == IF a = <<>> THEN 0 ELSE (IF Head(a) THEN 1 ELSE 0) + 2 * ToNat(Tail(a))

RECURSIVE Hex(_)
\* The word written as a sequence of hexadecimal digits, most significant first.
Hex(ds) == IF ds = <<>> THEN <<>> ELSE FromNat(ds[Len(ds)], 4) \o Hex(SubSeq(ds, 1, Len(ds) - 1))

Xor(a, b) == Strict2(a, b, Word([i \in 1..Len(a) |-> a[i] # b[i]]))

And(a, b) == Strict2(a, b, Word([i \in 1..Len(a) |-> a[i] /\ b[i]]))

Or(a, b) == Strict2(a, b, Word([i \in 1..Len(a) |-> a[i] \/ b[i]]))

\* a << k, bits shifted out are lost.
Shl(a, k) == Strict(a, Word([i \in 1..Len(a) |-> IF i > k THEN a[i - k] ELSE FALSE]))

\* a >> k on an unsigned word (logical: zeros come in).
Shr(a, k) == Strict(a, Word([i \in 1..Len(a) |-> IF i + k <= Len(a) THEN a[i + k] ELSE FALSE]))

\* u32::rotate_left
rotate_left(a, k) == Strict(a, Word([i \in 1..Len(a) |-> a[((i - 1 - k) % Len(a)) + 1]]))

\* The low w bits of a, or a zero-extended to w bits ("as" between unsigned widths).
Resize(a, w) == Strict(a, Word([i \in 1..w |-> IF i <= Len(a) THEN a[i] ELSE FALSE]))

\* The carry into bit i of a + b: some lower bit j generates a carry (both bits
\* set) and every bit between j and i propagates it (at least one bit set).
Carry(a, b, i) ==
    \E j \in 1..(i - 1) : a[j] /\ b[j] /\ \A k \in (j + 1)..(i - 1) : a[k] \/ b[k]

wrapping_add(a, b) == Strict2(a, b, Word([i \in 1..Len(a) |-> (a[i] # b[i]) # Carry(a, b, i)]))

\* Byte k (0 the least significant) of a word, as a number.
Byte(a, k) == ToNat(SubSeq(a, 8 * k + 1, 8 * k + 8))

\* u32::wrapping_mul: long multiplication on the four bytes of each factor; c0..c3
\* are the columns of the product with the carry of the column below, and the
\* columns above the fourth are the part that wraps.
wrapping_mul(a, b) ==
    LET a0 == Byte(a, 0)
        a1 == Byte(a, 1)
        a2 == Byte(a, 2)
        a3 == Byte(a, 3)
        b0 == Byte(b, 0)
        b1 == Byte(b, 1)
        b2 == Byte(b, 2)
        b3 == Byte(b, 3)
        c0 == a0 * b0
        c1 == a0 * b1 + a1 * b0 + (c0 \div 256)
        c2 == a0 * b2 + a1 * b1 + a2 * b0 + (c1 \div 256)
        c3 == a0 * b3 + a1 * b2 + a2 * b1 + a3 * b0 + (c2 \div 256)
    IN  Strict2(a, b, FromNat(c0 % 256, 8) \o FromNat(c1 % 256, 8)
                          \o FromNat(c2 % 256, 8) \o FromNat(c3 % 256, 8))

(***************************************************************************)
(* SparkXorShiftRandom: the seed hash.                                     *)
(***************************************************************************)
\* i64::to_be_bytes: the 8 bytes of a 64-bit word, most significant byte first.
to_be_bytes(w) == Word([j \in 1..8 |-> SubSeq(w, 8 * (8 - j) + 1, 8 * (8 - j) + 8)])

\* u32::from_le_bytes: the first byte is the least significant one.
from_le_bytes(b0, b1, b2, b3) == b0 \o b1 \o b2 \o b3

mix(h1, k1) ==
    LET ka == wrapping_mul(k1, Hex(<<12, 12, 9, 14, 2, 13, 5, 1>>))
        kb == rotate_left(ka, 15)
        k  == wrapping_mul(kb, Hex(<<1, 11, 8, 7, 3, 5, 9, 3>>))
        ha == Xor(h1, k)
        hb == rotate_left(ha, 13)
    IN  wrapping_add(wrapping_mul(hb, FromNat(5, 32)), Hex(<<14, 6, 5, 4, 6, 11, 6, 4>>))

fmix32(h) ==
    LET ha == Xor(h, Shr(h, 16))
        hb == wrapping_mul(ha, Hex(<<8, 5, 14, 11, 12, 10, 6, 11>>))
        hc == Xor(hb, Shr(hb, 13))
        hd == wrapping_mul(hc, Hex(<<12, 2, 11, 2, 10, 14, 3, 5>>))
    IN  Xor(hd, Shr(hd, 16))

RECURSIVE Blocks(_, _, _, _)
\* The loop over the 4-byte chunks, from block i on.
Blocks(data, h1, i, n_blocks) ==
    IF i >= n_blocks THEN h1
    ELSE LET i4 == i * 4
             k1 == from_le_bytes(data[i4 + 1], data[i4 + 2], data[i4 + 3], data[i4 + 4])
             h  == mix(h1, k1)
         IN  Strict(h, Blocks(data, h, i + 1, n_blocks))

murmur3_bytes_hash(data, hseed) ==
    LET len        == Len(data)
        n_blocks   == len \div 4
        hBlocks    == Blocks(data, hseed, 0, n_blocks)
        tail_start == n_blocks * 4
        tail_len   == len - tail_start
        z          == FromNat(0, 32)
        ka == IF tail_len >= 3 THEN Xor(z, Shl(Resize(data[tail_start + 3], 32), 16)) ELSE z
        kb == IF tail_len >= 2 THEN Xor(ka, Shl(Resize(data[tail_start + 2], 32), 8)) ELSE ka
        hTail ==
            IF tail_len >= 1
            THEN LET kc == Xor(kb, Resize(data[tail_start + 1], 32))
                     kd == wrapping_mul(kc, Hex(<<12, 12, 9, 14, 2, 13, 5, 1>>))
                     ke == rotate_left(kd, 15)
                     kf == wrapping_mul(ke, Hex(<<1, 11, 8, 7, 3, 5, 9, 3>>))
                 IN  Xor(hBlocks, kf)
            ELSE hBlocks
    IN  Strict(hTail, fmix32(Xor(hTail, FromNat(len, 32))))

array_seed == Hex(<<3, 12, 0, 7, 4, 10, 6, 1>>)

\* hash_seed with the second hash seeded by the constant again.
hash_seed_SameSeedTwice(user_seed) ==
    LET bytes     == to_be_bytes(user_seed)
        low_bits  == murmur3_bytes_hash(bytes, array_seed)
        high_bits == murmur3_bytes_hash(bytes, array_seed)
    IN  Or(Shl(Resize(high_bits, 64), 32), Resize(low_bits, 64))

hash_seed(user_seed) ==
    LET bytes     == to_be_bytes(user_seed)
        low_bits  == murmur3_bytes_hash(bytes, array_seed)
        high_bits == murmur3_bytes_hash(bytes, low_bits)
    IN  Strict(low_bits,
               Or(Shl(Resize(high_bits, 64), 32),
                  And(Resize(low_bits, 64),
                      Hex(<<0, 0, 0, 0, 0, 0, 0, 0, 15, 15, 15, 15, 15, 15, 15, 15>>))))

(***************************************************************************)
(* SparkXorShiftRandom: the generator.                                     *)
(***************************************************************************)
\* No generator has been created yet; a created one records its seed as <<i>>.
NoSeed == <<>>

Zero64 == FromNat(0, 64)

\* (1i64 << bits) - 1
Mask(bits) == Word([i \in 1..64 |-> i <= bits])

\* "as i32" of a 64-bit word: the signed value of its low 32 bits.
AsI32(w) ==
    IF w[32] THEN -(ToNat(SubSeq(Not(w), 1, 31)) + 1) ELSE ToNat(SubSeq(w, 1, 31))

\* a >> k on a signed word (arithmetic: copies of the sign bit come in).
Sar(a, k) == Word([i \in 1..Len(a) |-> IF i + k <= Len(a) THEN a[i + k] ELSE a[Len(a)]])

\* next with the right shift made on the signed value.
next_SignedShift(s, bits) ==
    LET a == Xor(s, Shl(s, 21))
        b == Xor(a, Sar(a, 35))
        next_seed == Xor(b, Shl(b, 4))
    IN  [seed |-> next_seed, value |-> AsI32(And(next_seed, Mask(bits)))]

\* next(bits): the new state register and the value returned.
next(s, bits) ==
    LET a == Xor(s, Shl(s, 21))
        b == Xor(a, Shr(a, 35))
        next_seed == Xor(b, Shl(b, 4))
    IN  [seed |-> next_seed, value |-> AsI32(And(next_seed, Mask(bits)))]

\* next_double(): the new state register and the numerator of the result, the
\* 64-bit integer (high + low) that is then divided by 2^53.
next_double(s) ==
    LET n1   == next(s, 26)
        high == Shl(FromInt(n1.value, 64), 27)
        n2   == next(n1.seed, 27)
        low  == FromInt(n2.value, 64)
    IN  [seed |-> n2.seed, numerator |-> wrapping_add(high, low)]

\* The seeds the generator is created with.
Seeds == (-MaxSeed)..MaxSeed

\* The number of values main draws from each generator.
MaxDraws == 5

(***************************************************************************)
(* Scalar values.  Every scalar is a record [nan, v]: an f64 is NaN or the *)
(* number v / MaxF, an i64 is the number v.                                *)
(***************************************************************************)
NaN == [nan |-> TRUE, v |-> 0]

F(n) == [nan |-> FALSE, v |-> n]

F64 == {NaN} \cup {F(n) : n \in 0..MaxF}

I64 == {F(n) : n \in 0..MaxI64}

\* a < b on f64 (false when either side is NaN)
FLt(a, b) == ~a.nan /\ ~b.nan /\ a.v < b.v

\* a >= b on f64 (false when either side is NaN)
FGtEq(a, b) == ~a.nan /\ ~b.nan /\ a.v >= b.v

\* a <= b and a > b on f64
FLtEq(a, b) == ~a.nan /\ ~b.nan /\ a.v <= b.v

FGt(a, b) == ~a.nan /\ ~b.nan /\ a.v > b.v

Range(s) == {s[i] : i \in 1..Len(s)}

(***************************************************************************)
(* Expressions and logical plans (datafusion_expr).                        *)
(***************************************************************************)
Column(n) == [kind |-> "Column", name |-> n]

Literal(t, x) == [kind |-> "Literal", type |-> t, value |-> x]

ScalarFunction(f, args) == [kind |-> "ScalarFunction", func |-> f, args |-> args]

Alias(e, n) == [kind |-> "Alias", expr |-> e, name |-> n]

BinaryExpr(l, o, r) == [kind |-> "BinaryExpr", left |-> l, op |-> o, right |-> r]

RECURSIVE Refs(_)
\* The columns an expression refers to.
Refs(e) ==
    CASE e.kind = "Column" -> {e.name}
      [] e.kind = "Literal" -> {}
      [] e.kind = "Alias" -> Refs(e.expr)
      [] e.kind = "BinaryExpr" -> Refs(e.left) \cup Refs(e.right)
      [] e.kind = "ScalarFunction" -> UNION {Refs(e.args[i]) : i \in 1..Len(e.args)}

RefsAll(exprs) == UNION {Refs(exprs[i]) : i \in 1..Len(exprs)}

\* The name of the output column of a projected expression.
OutName(e) == e.name

NoPlan == [op |-> "None"]

TableScan(cols) == [op |-> "TableScan", columns |-> cols]

Projection(p, exprs) == [op |-> "Projection", input |-> p, exprs |-> exprs]

Filter(p, predicate) == [op |-> "Filter", input |-> p, predicate |-> predicate]

Unnest(p, c) == [op |-> "Unnest", input |-> p, column |-> c]

RECURSIVE Schema(_)
\* plan.schema().columns(): the names of the output columns, in order.
Schema(p) ==
    CASE p.op = "TableScan" -> p.columns
      [] p.op = "Projection" -> [i \in 1..Len(p.exprs) |-> OutName(p.exprs[i])]
      [] p.op = "Filter" -> Schema(p.input)
      [] p.op = "Unnest" -> Schema(p.input)

\* Expr::Column(col.clone()) for every column of the schema.
Columns(p) == [i \in 1..Len(Schema(p)) |-> Column(Schema(p)[i])]

(***************************************************************************)
(* Errors and results.                                                     *)
(***************************************************************************)
NoError == [kind |-> "none", msg |-> <<>>]

\* PlanError::invalid("invalid sample bounds: [lower, upper)")
InvalidSampleBounds(lower, upper) == [kind |-> "invalid sample bounds", msg |-> <<lower, upper>>]

\* An error of the recursive resolution of the input.
ResolveError == [kind |-> "input resolution", msg |-> <<>>]

\* An error of LogicalPlanBuilder.
BuilderError == [kind |-> "plan builder", msg |-> <<>>]

NoResult == [tag |-> "None", error |-> NoError, plan |-> NoPlan]

Ok(p) == [tag |-> "Ok", error |-> NoError, plan |-> p]

Err(e) == [tag |-> "Err", error |-> e, plan |-> NoPlan]

\* One call to a collaborator: the operation, the hint given to the registrar (if
\* it is one), the column names the operation refers to and the error it returned.
Event(o, hint, refs, e) == [op |-> o, hint |-> hint, refs |-> refs, error |-> e]

(***************************************************************************)
(* LogicalPlanBuilder.  A builder holds the plan built so far or the error *)
(* of the step that failed, and the steps made; a step on a failed builder *)
(* is not made (the `?` has returned).  `fails` is the outcome of the step *)
(* as the library decides it.                                              *)
(***************************************************************************)
Builder(p) == [tag |-> "Ok", error |-> NoError, plan |-> p, log |-> <<>>]

Step(b, o, refs, valid, fails, p) ==
    IF b.tag = "Err" THEN b
    ELSE IF fails \/ ~valid
         THEN [tag |-> "Err", error |-> BuilderError, plan |-> NoPlan,
               log |-> Append(b.log, Event(o, "", refs, BuilderError))]
         ELSE [tag |-> "Ok", error |-> NoError, plan |-> p,
               log |-> Append(b.log, Event(o, "", refs, NoError))]

project(b, exprs, fails) ==
    Step(b, "project", RefsAll(exprs), RefsAll(exprs) \subseteq Range(Schema(b.plan)),
         fails, Projection(b.plan, exprs))

filter(b, predicate, fails) ==
    Step(b, "filter", Refs(predicate), Refs(predicate) \subseteq Range(Schema(b.plan)),
         fails, Filter(b.plan, predicate))

unnest_column(b, c, fails) ==
    Step(b, "unnest_column", {c}, c \in Range(Schema(b.plan)), fails, Unnest(b.plan, c))

\* A failure reported as an invalid-plan error of the resolver's own.
Build_Rewrapped(b) ==
    [tag |-> b.tag,
     error |-> IF b.tag = "Err" THEN InvalidSampleBounds(NaN, NaN) ELSE NoError,
     plan |-> b.plan]

\* builder.build()?, as a PlanResult
Build(b) == [tag |-> b.tag, error |-> b.error, plan |-> b.plan]

(***************************************************************************)
(* PlanResolverState: the sequence of the hints of the registered fields.  *)
(* The name issued for the n-th registered field is n.                     *)
(***************************************************************************)
register_field_name(st, hint) == [state |-> Append(st, hint), name |-> Len(st) + 1]

RECURSIVE RegisterAll(_, _)
\* The state after registering k fields of the input.
RegisterAll(st, k) == IF k = 0 THEN st ELSE RegisterAll(Append(st, "col"), k - 1)

\* resolve_query_plan_with_hidden_fields: the input spec says how many columns the
\* input has and whether its resolution fails; the recursion registers the columns.
resolve_query_plan_with_hidden_fields(spec_input, st) ==
    LET after == RegisterAll(st, spec_input.columns)
    IN  [state |-> after,
         result |-> IF spec_input.error = NoError
                    THEN Ok(TableScan([i \in 1..spec_input.columns |-> Len(st) + i]))
                    ELSE Err(spec_input.error)]

(***************************************************************************)
(* resolve_query_sample                                                    *)
(***************************************************************************)
\* The check made with > : equal bounds pass.
BoundsRejected_Gt(lower_bound, upper_bound) == FGt(lower_bound, upper_bound)

\* if lower_bound >= upper_bound
BoundsRejected(lower_bound, upper_bound) == FGtEq(lower_bound, upper_bound)

\* The seed always drawn, the supplied one ignored.
ResolvedSeed_AlwaysDrawn(opt, random) == random

\* seed.unwrap_or_else(|| rng().random::<i64>()), `random` being the value drawn
ResolvedSeed(opt, random) == IF opt = <<>> THEN random ELSE opt[1]

rand_expr(with_replacement, upper_bound, s, name) ==
    IF with_replacement
    THEN Alias(ScalarFunction("RandPoisson",
                              <<Literal("Float64", upper_bound), Literal("Int64", s)>>), name)
    ELSE Alias(ScalarFunction("Random", <<Literal("Int64", s)>>), name)

\* Lines 63-73: plan_with_rand
plan_with_rand(in, rexpr, fails) ==
    LET init_exprs == Columns(in)
        all_exprs  == Append(init_exprs, rexpr)
    IN  project(Builder(in), all_exprs, fails)

\* The last projection keeps every column of plan_with_rand.
resolve_sample_without_replacement_KeepsRand(pwr, name, lower_bound, upper_bound, init_exprs, fault) ==
    LET b1 == filter(Builder(pwr),
                     BinaryExpr(Column(name), "Lt", Literal("Float64", upper_bound)),
                     fault = 1)
        b2 == filter(b1, BinaryExpr(Column(name), "GtEq", Literal("Float64", lower_bound)),
                     fault = 2)
        b3 == project(b2, Columns(pwr), fault = 3)
    IN  b3

\* The upper bound made inclusive (lt_eq for lt).
resolve_sample_without_replacement_LtEq(pwr, name, lower_bound, upper_bound, init_exprs, fault) ==
    LET b1 == filter(Builder(pwr),
                     BinaryExpr(Column(name), "LtEq", Literal("Float64", upper_bound)),
                     fault = 1)
        b2 == filter(b1, BinaryExpr(Column(name), "GtEq", Literal("Float64", lower_bound)),
                     fault = 2)
        b3 == project(b2, init_exprs, fault = 3)
    IN  b3

\* resolve_sample_without_replacement; fault is the builder step that fails (0: none).
resolve_sample_without_replacement(pwr, name, lower_bound, upper_bound, init_exprs, fault) ==
    LET b1 == filter(Builder(pwr),
                     BinaryExpr(Column(name), "Lt", Literal("Float64", upper_bound)),
                     fault = 1)
        b2 == filter(b1, BinaryExpr(Column(name), "GtEq", Literal("Float64", lower_bound)),
                     fault = 2)
        b3 == project(b2, init_exprs, fault = 3)
    IN  b3

\* The sequence started at 0: one copy too many.
resolve_sample_with_replacement_FromZero(pwr, name, init_exprs, st, fault) ==
    LET init_exprs_aux == Columns(pwr)
        reg == register_field_name(st, "array_value")
        array_column_name == reg.name
        arr_expr == Alias(ScalarFunction("SparkSequence",
                                         <<Literal("Int64", F(0)), Column(name)>>),
                          array_column_name)
        b0 == [Builder(pwr) EXCEPT !.log =
                  <<Event("register_field_name", "array_value", {array_column_name}, NoError)>>]
        b1 == project(b0, Append(init_exprs_aux, arr_expr), fault = 1)
        b2 == unnest_column(b1, array_column_name, fault = 2)
        b3 == project(b2, init_exprs, fault = 3)
    IN  [state |-> reg.state, b |-> b3]

\* The array column named without asking the registrar.
resolve_sample_with_replacement_Unregistered(pwr, name, init_exprs, st, fault) ==
    LET init_exprs_aux == Columns(pwr)
        array_column_name == Len(st) + 1
        arr_expr == Alias(ScalarFunction("SparkSequence",
                                         <<Literal("Int64", F(1)), Column(name)>>),
                          array_column_name)
        b1 == project(Builder(pwr), Append(init_exprs_aux, arr_expr), fault = 1)
        b2 == unnest_column(b1, array_column_name, fault = 2)
        b3 == project(b2, init_exprs, fault = 3)
    IN  [state |-> st, b |-> b3]

\* resolve_sample_with_replacement, from the registrar state st: the state it leaves
\* and the builder of the last step, its log starting with the registration.
resolve_sample_with_replacement(pwr, name, init_exprs, st, fault) ==
    LET init_exprs_aux == Columns(pwr)
        reg == register_field_name(st, "array_value")
        array_column_name == reg.name
        arr_expr == Alias(ScalarFunction("SparkSequence",
                                         <<Literal("Int64", F(1)), Column(name)>>),
                          array_column_name)
        b0 == [Builder(pwr) EXCEPT !.log =
                  <<Event("register_field_name", "array_value", {array_column_name}, NoError)>>]
        b1 == project(b0, Append(init_exprs_aux, arr_expr), fault = 1)
        b2 == unnest_column(b1, array_column_name, fault = 2)
        b3 == project(b2, init_exprs, fault = 3)
    IN  [state |-> reg.state, b |-> b3]

\* The samples resolved: every pair of bounds, both flags, a seed or none, and an
\* input of 1..MaxCols columns whose resolution succeeds or fails.
Inputs == [columns : 1..MaxCols, error : {NoError, ResolveError}]

Samples ==
    [input : Inputs, lower_bound : F64, upper_bound : F64, with_replacement : BOOLEAN,
     seed : {<<>>} \cup {<<s>> : s \in I64}]

\* The states of the registrar a call may start from.
States == {RegisterAll(<<>>, k) : k \in 0..MaxFields}

ResolverInit ==
    /\ sample \in Samples
    /\ state0 \in States
    /\ state = state0
    /\ pc = "idle"
    /\ seed = F(0)
    /\ input = NoPlan
    /\ rand_column_name = 0
    /\ plan = NoPlan
    /\ result = NoResult
    /\ events = <<>>
    /\ calls = 0
    /\ first = NoResult
    /\ drawn = <<>>
    /\ output = <<>>

\* The caller calls resolve_query_sample(sample, state), with the state as it was
\* before the first call.
Call ==
    /\ pc \in {"idle", "done"}
    /\ calls < MaxCalls
    /\ calls' = calls + 1
    /\ first' = IF calls = 1 THEN result ELSE first
    /\ pc' = "validate"
    /\ state' = state0
    /\ seed' = F(0)
    /\ input' = NoPlan
    /\ rand_column_name' = 0
    /\ plan' = NoPlan
    /\ result' = NoResult
    /\ events' = <<>>
    /\ drawn' = <<>>
    /\ output' = <<>>
    /\ UNCHANGED <<sample, state0>>
    /\ UNCHANGED genVars

\* The call returns r.
Return(r) ==
    /\ result' = r
    /\ pc' = "done"

\* Lines 31-35
Validate ==
    /\ pc = "validate"
    /\ IF BoundsRejected(sample.lower_bound, sample.upper_bound)
       THEN Return(Err(InvalidSampleBounds(sample.lower_bound, sample.upper_bound)))
       ELSE pc' = "seed" /\ UNCHANGED result
    /\ UNCHANGED <<sample, state0, state, seed, input, rand_column_name, plan, events,
                   calls, first, drawn, output>>
    /\ UNCHANGED genVars

\* Lines 38-41
ResolveSeed ==
    /\ pc = "seed"
    /\ \/ /\ sample.seed = <<>>
          /\ \E random \in I64 : seed' = ResolvedSeed(sample.seed, random)
          /\ events' = Append(events, Event("random", "", {}, NoError))
       \/ /\ sample.seed # <<>>
          /\ seed' = ResolvedSeed(sample.seed, F(0))
          /\ UNCHANGED events
    /\ pc' = "input"
    /\ UNCHANGED <<sample, state0, state, input, rand_column_name, plan, result,
                   calls, first, drawn, output>>
    /\ UNCHANGED genVars

\* Lines 43-45
ResolveInput ==
    /\ pc = "input"
    /\ LET r == resolve_query_plan_with_hidden_fields(sample.input, state)
       IN  /\ state' = r.state
           /\ events' = Append(events, Event("resolve_query_plan", "", {}, r.result.error))
           /\ IF r.result.tag = "Err"
              THEN Return(r.result) /\ UNCHANGED input
              ELSE input' = r.result.plan /\ pc' = "register" /\ UNCHANGED result
    /\ UNCHANGED <<sample, state0, seed, rand_column_name, plan, calls, first, drawn,
                   output>>
    /\ UNCHANGED genVars

\* Line 46
RegisterRand ==
    /\ pc = "register"
    /\ LET r == register_field_name(state, "rand_value")
       IN  /\ state' = r.state
           /\ rand_column_name' = r.name
           /\ events' = Append(events, Event("register_field_name", "rand_value", {r.name},
                                            NoError))
    /\ pc' = "project"
    /\ UNCHANGED <<sample, state0, seed, input, plan, result, calls, first, drawn, output>>
    /\ UNCHANGED genVars

\* Lines 47-73
ProjectRand ==
    /\ pc = "project"
    /\ \E fails \in BOOLEAN :
          LET rexpr == rand_expr(sample.with_replacement, sample.upper_bound, seed,
                                 rand_column_name)
              b == plan_with_rand(input, rexpr, fails)
          IN  /\ events' = events \o b.log
              /\ IF b.tag = "Err"
                 THEN Return(Build(b)) /\ UNCHANGED plan
                 ELSE plan' = b.plan /\ pc' = "branch" /\ UNCHANGED result
    /\ UNCHANGED <<sample, state0, state, seed, input, rand_column_name, calls, first,
                   drawn, output>>
    /\ UNCHANGED genVars

\* Lines 82-90 and 94-109
SampleWithoutReplacement ==
    /\ pc = "branch"
    /\ ~sample.with_replacement
    /\ \E fault \in 0..3 :
          LET b == resolve_sample_without_replacement(plan, rand_column_name,
                       sample.lower_bound, sample.upper_bound, Columns(input), fault)
          IN  /\ events' = events \o b.log
              /\ plan' = b.plan
              /\ Return(Build(b))
    /\ UNCHANGED <<sample, state0, state, seed, input, rand_column_name, calls, first,
                   drawn, output>>
    /\ UNCHANGED genVars

\* Lines 75-81 and 112-154
SampleWithReplacement ==
    /\ pc = "branch"
    /\ sample.with_replacement
    /\ \E fault \in 0..3 :
          LET r == resolve_sample_with_replacement(plan, rand_column_name, Columns(input),
                                                   state, fault)
          IN  /\ state' = r.state
              /\ events' = events \o r.b.log
              /\ plan' = r.b.plan
              /\ Return(Build(r.b))
    /\ UNCHANGED <<sample, state0, seed, input, rand_column_name, calls, first, drawn,
                   output>>
    /\ UNCHANGED genVars

(***************************************************************************)
(* Running a plan: the rows a plan produces from the rows of its input.    *)
(* A row is the sequence of the values of the columns of the schema.       *)
(***************************************************************************)
\* The rows of the input: MaxRows distinct rows, no value occurring twice.
Table(p) == [r \in 1..MaxRows |-> [c \in 1..Len(p.columns) |-> F(MaxCols * r + c)]]

\* The position of column n in a schema.
IndexOf(sch, n) == CHOOSE i \in 1..Len(sch) : sch[i] = n

\* sequence(start, stop): the integers start..stop, none when stop < start.
SparkSequence(start, stop) == [i \in 1..(stop.v - start.v + 1) |-> F(start.v + i - 1)]

RECURSIVE Eval(_, _, _, _)
\* The value of an expression on a row; rnd is the value the random function
\* returns for this row.
Eval(e, sch, row, rnd) ==
    CASE e.kind = "Column" -> row[IndexOf(sch, e.name)]
      [] e.kind = "Literal" -> e.value
      [] e.kind = "Alias" -> Eval(e.expr, sch, row, rnd)
      [] e.kind = "BinaryExpr" ->
            LET l == Eval(e.left, sch, row, rnd)
                r == Eval(e.right, sch, row, rnd)
            IN  (CASE e.op = "Lt" -> FLt(l, r)
                   [] e.op = "LtEq" -> FLtEq(l, r)
                   [] e.op = "Gt" -> FGt(l, r)
                   [] e.op = "GtEq" -> FGtEq(l, r))
      [] e.kind = "ScalarFunction" ->
            IF e.func = "SparkSequence"
            THEN SparkSequence(Eval(e.args[1], sch, row, rnd), Eval(e.args[2], sch, row, rnd))
            ELSE rnd

RECURSIVE Expand(_, _)
\* Unnest: every row once for each element of its list in column i, in order.
Expand(rows, i) ==
    IF rows = <<>> THEN <<>>
    ELSE LET row == Head(rows)
         IN  [k \in 1..Len(row[i]) |-> [row EXCEPT ![i] = row[i][k]]] \o Expand(Tail(rows), i)

RECURSIVE Rows(_, _)
\* The rows of a plan; rv[r] is the value of the random function for row r.
Rows(p, rv) ==
    CASE p.op = "TableScan" -> Table(p)
      [] p.op = "Projection" ->
            LET in == Rows(p.input, rv)
            IN  [r \in 1..Len(in) |->
                    [j \in 1..Len(p.exprs) |-> Eval(p.exprs[j], Schema(p.input), in[r], rv[r])]]
      [] p.op = "Filter" ->
            LET in == Rows(p.input, rv)
                keep(r) == Eval(p.predicate, Schema(p.input), in[r[1]], rv[r[2]])
                tagged == SelectSeq([r \in 1..Len(in) |-> <<r, r>>], keep)
            IN  [k \in 1..Len(tagged) |-> in[tagged[k][1]]]
      [] p.op = "Unnest" -> Expand(Rows(p.input, rv), IndexOf(Schema(p.input), p.column))

\* The values the random column can take: a uniform value in [0, 1), or a Poisson
\* variate.
Variates == IF sample.with_replacement THEN {F(k) : k \in 0..MaxCount}
            ELSE {F(n) : n \in 0..(MaxF - 1)}

\* The engine runs the returned plan.
Execute ==
    /\ pc = "done"
    /\ result.tag = "Ok"
    /\ drawn = <<>>
    /\ \E rv \in [1..MaxRows -> Variates] :
          /\ drawn' = rv
          /\ output' = Rows(result.plan, rv)
    /\ UNCHANGED <<sample, state0, state, pc, seed, input, rand_column_name, plan, result,
                   events, calls, first>>
    /\ UNCHANGED genVars

GenInit ==
    /\ init = NoSeed
    /\ self_seed = Zero64
    /\ doubles = <<>>

\* No sample is being resolved.
ResolverIdle ==
    /\ sample = [input |-> [columns |-> 1, error |-> NoError], lower_bound |-> F(0),
                 upper_bound |-> F(MaxF), with_replacement |-> FALSE, seed |-> <<>>]
    /\ state0 = <<>>
    /\ state = <<>>
    /\ pc = "idle"
    /\ seed = F(0)
    /\ input = NoPlan
    /\ rand_column_name = 0
    /\ plan = NoPlan
    /\ result = NoResult
    /\ events = <<>>
    /\ calls = 0
    /\ first = NoResult
    /\ drawn = <<>>
    /\ output = <<>>

\* SparkXorShiftRandom::new(i)
New(i) ==
    /\ init = NoSeed
    /\ init' = <<i>>
    /\ self_seed' = hash_seed(FromInt(i, 64))
    /\ doubles' = <<>>
    /\ UNCHANGED resolverVars

\* spark_rng.next_double()
NextDouble ==
    /\ init # NoSeed
    /\ Len(doubles) < MaxDraws
    /\ LET r == next_double(self_seed)
       IN  /\ self_seed' = r.seed
           /\ doubles' = Append(doubles, r.numerator)
    /\ UNCHANGED init
    /\ UNCHANGED resolverVars

GenNext ==
    \/ \E i \in Seeds : New(i)
    \/ NextDouble

GenSpecInit == GenInit /\ ResolverIdle

GenSpec == GenSpecInit /\ [][GenNext]_vars

Init == ResolverInit /\ GenInit

\* The resolver alone: up to MaxCalls calls on the same sample.
Next ==
    \/ Call
    \/ Validate
    \/ ResolveSeed
    \/ ResolveInput
    \/ RegisterRand
    \/ ProjectRand
    \/ SampleWithoutReplacement
    \/ SampleWithReplacement

Spec == Init /\ [][Next]_vars

\* The only call of a sample whose plan is then run.
FirstCall == calls = 0 /\ Call

\* One call, and the engine running the plan it returned.
RunNext ==
    \/ FirstCall
    \/ Validate
    \/ ResolveSeed
    \/ ResolveInput
    \/ RegisterRand
    \/ ProjectRand
    \/ SampleWithoutReplacement
    \/ SampleWithReplacement
    \/ Execute

RunSpec == Init /\ [][RunNext]_vars

\* The double (hi * 2^27 + lo) / 2^53, as its 64-bit numerator.
Numerator(hi, lo) == Or(Shl(FromNat(hi, 64), 27), FromNat(lo, 64))

\* SPARK_XORSHIFT_SEED_1: 0.6363787615254752, 0.5993846534021868, 0.134842710012538,
\* 0.07684163905460906, 0.8539211111755448, each as <<hi, lo>> with
\* value = (hi * 2^27 + lo) / 2^53 exactly.
SPARK_XORSHIFT_SEED_1 ==
    << <<42706655, 101965416>>, <<40224023, 25347621>>, <<9049141, 11760540>>,
       <<5156755, 14073111>>, <<57305675, 96181567>> >>

\* SPARK_XORSHIFT_SEED_24: 0.3943255396952755, 0.48619924381941027, 0.2923951640552428,
\* 0.33335316633280176, 0.3981939745854918, in the same form.
SPARK_XORSHIFT_SEED_24 ==
    << <<26462739, 2031633>>, <<32628278, 124873442>>, <<19622307, 40109757>>,
       <<22370952, 40721306>>, <<26722345, 38396635>> >>

Matches(expected) ==
    \A i \in 1..Len(doubles) : doubles[i] = Numerator(expected[i][1], expected[i][2])

\* One xorshift step as the recurrence on the bits of the state: bit i of
\* s ^ (s << 21), then of that ^ (that >>> 35), then of that ^ (that << 4).
XorShiftStep(s) ==
    LET a == [i \in 1..64 |-> s[i] # (i > 21 /\ s[i - 21])]
        b == [i \in 1..64 |-> a[i] # (i <= 29 /\ a[i + 35])]
    IN  Word([i \in 1..64 |-> b[i] # (i > 4 /\ b[i - 4])])

\* C9: next_double() advances the state by exactly two xorshift steps, takes the low
\* 26 bits of the state after the first as the high part and the low 27 bits of the
\* state after the second as the low part, and returns (high * 2^27 + low) / 2^53,
\* a numerator in 0 .. 2^53 - 1.
C9_NextDouble ==
    [][Len(doubles') = Len(doubles) + 1 =>
          LET s1  == XorShiftStep(self_seed)
              s2  == XorShiftStep(s1)
              num == doubles'[Len(doubles')]
          IN  /\ self_seed' = s2
              /\ \A i \in 1..27 : num[i] = s2[i]
              /\ \A i \in 1..26 : num[27 + i] = s1[i]
              /\ \A i \in 54..64 : ~num[i]]_vars

C9_Witness == init = <<-MaxSeed>> /\ Len(doubles) = MaxDraws /\ self_seed # Zero64

\* C4: a generator created with new(1) returns the five reference values of seed 1
\* from its first five next_double() calls, and one created with new(24) those of
\* seed 24 (the 53-bit numerator of each output equals the reference times 2^53).
C4_GeneratorFidelity ==
    /\ init = <<1>> => Matches(SPARK_XORSHIFT_SEED_1)
    /\ init = <<24>> => Matches(SPARK_XORSHIFT_SEED_24)

C4_Witness == init = <<24>> /\ Len(doubles) = MaxDraws

(***************************************************************************)
(* Properties of resolve_query_sample.                                     *)
(***************************************************************************)
Done == pc = "done"

\* The indexes of the events of the call that register a field name.
Registrations == {i \in 1..Len(events) : events[i].op = "register_field_name"}

\* The hints of the field names the call registered, in order.
RegisteredHints ==
    LET regs == SelectSeq(events, LAMBDA e : e.op = "register_field_name")
    IN  [i \in 1..Len(regs) |-> regs[i].hint]

\* The names the registrar issued to the call.
IssuedNames == UNION {events[i].refs : i \in Registrations}

\* The number of times a row occurs in the output.
Copies(row) == Cardinality({i \in 1..Len(output) : output[i] = row})

\* C1: resolve_query_sample fails with the invalid sample bounds error for every
\* sample with lower_bound >= upper_bound, and for every sample with
\* lower_bound < upper_bound it never returns that error.
C1_BoundsValidation ==
    /\ (Done /\ sample.lower_bound.v >= sample.upper_bound.v
             /\ ~sample.lower_bound.nan /\ ~sample.upper_bound.nan)
          => result = Err(InvalidSampleBounds(sample.lower_bound, sample.upper_bound))
    /\ (~sample.lower_bound.nan /\ ~sample.upper_bound.nan
             /\ sample.lower_bound.v < sample.upper_bound.v)
          => result.error.kind # "invalid sample bounds"

C1_Witness ==
    /\ Done
    /\ sample.lower_bound = sample.upper_bound
    /\ ~sample.lower_bound.nan
    /\ result.tag = "Err"

\* C2: whenever resolve_query_sample returns Ok, on both branches, the columns of
\* the output plan are those of the resolved input plan, same names in the same
\* order, and no name the registrar issued to the call is among them.
C2_SchemaPreserved ==
    (Done /\ result.tag = "Ok") =>
        /\ Schema(result.plan) = Schema(input)
        /\ IssuedNames \cap Range(Schema(result.plan)) = {}

C2_Witness ==
    /\ Done
    /\ result.tag = "Ok"
    /\ ~sample.with_replacement
    /\ Len(Schema(result.plan)) = MaxCols
    /\ IssuedNames # {}

RECURSIVE SeedLiteralsOfExpr(_)
\* The Int64 literals given to a random function inside an expression.
SeedLiteralsOfExpr(e) ==
    CASE e.kind = "Alias" -> SeedLiteralsOfExpr(e.expr)
      [] e.kind = "ScalarFunction" /\ e.func \in {"Random", "RandPoisson"} ->
            {e.args[i].value : i \in {j \in 1..Len(e.args) : e.args[j].type = "Int64"}}
      [] OTHER -> {}

RECURSIVE SeedLiterals(_)
\* The seed literals of a plan.
SeedLiterals(p) ==
    CASE p.op = "Projection" ->
            UNION {SeedLiteralsOfExpr(p.exprs[i]) : i \in 1..Len(p.exprs)}
                \cup SeedLiterals(p.input)
      [] p.op \in {"Filter", "Unnest"} -> SeedLiterals(p.input)
      [] OTHER -> {}

\* C3: two calls with the same explicit seed, bounds, flag, input and starting
\* registrar state return structurally equal plans, and the seed literal of the plan
\* is the supplied seed.
C3_Deterministic ==
    (Done /\ calls >= 2 /\ sample.seed # <<>> /\ result.tag = "Ok" /\ first.tag = "Ok") =>
        /\ result.plan = first.plan
        /\ SeedLiterals(result.plan) = {sample.seed[1]}

C3_Witness ==
    /\ Done
    /\ calls = 2
    /\ sample.seed = <<F(MaxI64)>>
    /\ result.tag = "Ok"
    /\ first.tag = "Ok"

\* C5: on the with-replacement branch, a row whose random column holds the count k
\* is output exactly k times, its original column values unchanged in every copy;
\* a row with k = 0 is not output.
C5_PoissonExpansion ==
    (sample.with_replacement /\ drawn # <<>>) =>
        /\ \A r \in 1..MaxRows : Copies(Table(input)[r]) = drawn[r].v
        /\ Range(output) \subseteq Range(Table(input))

C5_Witness ==
    /\ sample.with_replacement
    /\ drawn # <<>>
    /\ drawn[1].v = 0
    /\ drawn[2].v = 3
    /\ Len(output) = 3

\* C6: on the without-replacement branch, a row is output if and only if its random
\* value r satisfies lower_bound <= r < upper_bound, and every surviving row is
\* output exactly once with its original column values.
C6_BernoulliFilter ==
    (~sample.with_replacement /\ drawn # <<>>) =>
        /\ \A r \in 1..MaxRows :
              Copies(Table(input)[r]) =
                  IF FGtEq(drawn[r], sample.lower_bound) /\ FLt(drawn[r], sample.upper_bound)
                  THEN 1 ELSE 0
        /\ Range(output) \subseteq Range(Table(input))

C6_Witness ==
    /\ ~sample.with_replacement
    /\ drawn # <<>>
    /\ Len(output) = 1
    /\ output[1] = Table(input)[2]

\* C7: a sample that does not satisfy lower_bound < upper_bound (NaN bounds
\* included) is rejected before any rewriting: whenever the call has drawn a seed,
\* called the input resolver, registered a name or built a plan node,
\* lower_bound < upper_bound holds.
C7_RejectedBeforeRewriting ==
    events # <<>> => FLt(sample.lower_bound, sample.upper_bound)

\* C8: when the input resolution or a builder step fails, the call returns that
\* error and no plan, and makes no further call to a collaborator; when it is the
\* input resolution that fails, the call has registered no field name and the
\* registrar is as the recursive call left it.
C8_ErrorsPropagate ==
    \A i \in 1..Len(events) :
        events[i].error # NoError =>
            /\ i = Len(events)
            /\ Done
            /\ result = Err(events[i].error)
            /\ events[i].op = "resolve_query_plan" =>
                  /\ Registrations = {}
                  /\ state = RegisterAll(state0, sample.input.columns)

C8_Witness ==
    /\ Done
    /\ events # <<>>
    /\ events[Len(events)].op = "resolve_query_plan"
    /\ events[Len(events)].error = ResolveError

\* C10: a successful call registers exactly one name (rand_value) without
\* replacement and exactly two (rand_value, then array_value) with replacement; a
\* call rejected for invalid bounds registers none; and every name is registered
\* after the input resolution has returned and before any step that refers to it.
C10_NamesRegistered ==
    /\ (Done /\ result.tag = "Ok") =>
          RegisteredHints = IF sample.with_replacement
                            THEN <<"rand_value", "array_value">>
                            ELSE <<"rand_value">>
    /\ result.error.kind = "invalid sample bounds" => Registrations = {}
    /\ \A i \in Registrations :
          /\ \E j \in 1..(i - 1) :
                events[j].op = "resolve_query_plan" /\ events[j].error = NoError
          /\ \A j \in 1..Len(events) :
                (j # i /\ events[i].refs \subseteq events[j].refs) => j > i

C10_Witness ==
    /\ Done
    /\ result.tag = "Ok"
    /\ sample.with_replacement
    /\ Len(RegisteredHints) = 2

====
